---- MODULE Spec2Model ----
(***************************************************************************)
(* Prefill feature of the agent runner (src/src/agents/prefill.ts) and the *)
(* two call sites of the embedded runner that use it                       *)
(* (src/PREFILL-IMPLEMENTATION.md, "Injection Point" / "Stripping Point"). *)
(*                                                                         *)
(* A JavaScript string is a sequence of one-character strings; the value   *)
(* undefined is the one-element sequence Undefined, whose element is not a *)
(* character.                                                               *)
(***************************************************************************)
EXTENDS Integers, Sequences, FiniteSets, TLC

\* ---------------------------------------------------------------- bounds
MaxResponseLen == 4
MaxPrefillLen == 4
MaxFileLen == 2
MaxCalls == 3
MaxTurnFileLen == 1
MaxRawLen == 2
MaxTurns == 2

\* ------------------------------------------------------------ characters
\* Two whitespace characters (both are matched by \s and removed by trim)
\* and two non-whitespace characters.
WhiteSpace == {" ", "\n"}
Letter == {"a", "b"}
Char == Letter \cup WhiteSpace

Undefined == <<"undefined">>

Texts(n) == UNION {[1..k -> Char] : k \in 0..n}

\* ------------------------------------------------- JavaScript primitives
\* !x for x : string | undefined
Falsy(x) == x = Undefined \/ x = <<>>

RECURSIVE TrimStart(_)
TrimStart(s) ==
  IF s = <<>> THEN s
  ELSE IF Head(s) \in WhiteSpace THEN TrimStart(Tail(s)) ELSE s

RECURSIVE TrimEnd(_)
TrimEnd(s) ==
  IF s = <<>> THEN s
  ELSE IF s[Len(s)] \in WhiteSpace THEN TrimEnd(SubSeq(s, 1, Len(s) - 1)) ELSE s

Trim(s) == TrimEnd(TrimStart(s))

StartsWith(s, p) == Len(p) <= Len(s) /\ SubSeq(s, 1, Len(p)) = p

\* s.slice(n), 0 <= n
Slice(s, n) == SubSeq(s, n + 1, Len(s))

\* s.replace(/\s+/g, " ")
RECURSIVE ReplaceWhitespaceRuns(_)
ReplaceWhitespaceRuns(s) ==
  IF s = <<>> THEN s
  ELSE IF Head(s) \in WhiteSpace
       THEN <<" ">> \o ReplaceWhitespaceRuns(TrimStart(s))
       ELSE <<Head(s)>> \o ReplaceWhitespaceRuns(Tail(s))

\* s.split(/\s+/): the pieces between maximal whitespace runs, the empty
\* pieces before a leading run and after a trailing run included.
RECURSIVE SplitFrom(_, _)
SplitFrom(s, piece) ==
  IF s = <<>> THEN <<piece>>
  ELSE IF Head(s) \in WhiteSpace
       THEN <<piece>> \o SplitFrom(TrimStart(s), <<>>)
       ELSE SplitFrom(Tail(s), Append(piece, Head(s)))

SplitWhitespace(s) == SplitFrom(s, <<>>)

\* words.join(" ")
RECURSIVE JoinSpace(_)
JoinSpace(words) ==
  IF words = <<>> THEN <<>>
  ELSE IF Len(words) = 1 THEN words[1]
  ELSE words[1] \o <<" ">> \o JoinSpace(Tail(words))

\* prefillContent.replace(/\s+/g, " ").trim()
NormalizeWhitespace(s) == Trim(ReplaceWhitespaceRuns(s))

\* ------------------------------------------ stripPrefillFromResponse
\* Plausible defects of stripPrefillFromResponse, used to show that the
\* properties below depend on the code.

\* the exact-prefix tier forgets trimStart()
StripPrefillNoTrimStart(response, prefillContent) ==
  IF Falsy(prefillContent) \/ Falsy(response) THEN response
  ELSE IF StartsWith(response, prefillContent)
       THEN Slice(response, Len(prefillContent))
       ELSE LET normalizedPrefill == NormalizeWhitespace(prefillContent)
                normalizedResponse == NormalizeWhitespace(response)
                prefillWords == Len(SplitWhitespace(prefillContent))
                responseWords == SplitWhitespace(response)
            IN IF StartsWith(normalizedResponse, normalizedPrefill)
                  /\ Len(responseWords) > prefillWords
               THEN TrimStart(JoinSpace(Slice(responseWords, prefillWords)))
               ELSE response

\* the early return tidies the response instead of returning it as it is
StripPrefillTidyEarlyReturn(response, prefillContent) ==
  IF Falsy(prefillContent) \/ Falsy(response) THEN TrimStart(response)
  ELSE IF StartsWith(response, prefillContent)
       THEN TrimStart(Slice(response, Len(prefillContent)))
       ELSE LET normalizedPrefill == NormalizeWhitespace(prefillContent)
                normalizedResponse == NormalizeWhitespace(response)
                prefillWords == Len(SplitWhitespace(prefillContent))
                responseWords == SplitWhitespace(response)
            IN IF StartsWith(normalizedResponse, normalizedPrefill)
                  /\ Len(responseWords) > prefillWords
               THEN TrimStart(JoinSpace(Slice(responseWords, prefillWords)))
               ELSE response

\* the no-match fall-through returns the whitespace-normalized response
StripPrefillNormalizedFallThrough(response, prefillContent) ==
  IF Falsy(prefillContent) \/ Falsy(response) THEN response
  ELSE IF StartsWith(response, prefillContent)
       THEN TrimStart(Slice(response, Len(prefillContent)))
       ELSE LET normalizedPrefill == NormalizeWhitespace(prefillContent)
                normalizedResponse == NormalizeWhitespace(response)
                prefillWords == Len(SplitWhitespace(prefillContent))
                responseWords == SplitWhitespace(response)
            IN IF StartsWith(normalizedResponse, normalizedPrefill)
                  /\ Len(responseWords) > prefillWords
               THEN TrimStart(JoinSpace(Slice(responseWords, prefillWords)))
               ELSE normalizedResponse

\* the lenient tier skips the words without checking the normalized prefix
StripPrefillNoNormalizedCheck(response, prefillContent) ==
  IF Falsy(prefillContent) \/ Falsy(response) THEN response
  ELSE IF StartsWith(response, prefillContent)
       THEN TrimStart(Slice(response, Len(prefillContent)))
       ELSE LET prefillWords == Len(SplitWhitespace(prefillContent))
                responseWords == SplitWhitespace(response)
            IN IF Len(responseWords) > prefillWords
               THEN TrimStart(JoinSpace(Slice(responseWords, prefillWords)))
               ELSE response

StripPrefillFromResponse(response, prefillContent) ==
  IF Falsy(prefillContent) \/ Falsy(response) THEN response
  ELSE IF StartsWith(response, prefillContent)
       THEN TrimStart(Slice(response, Len(prefillContent)))
       ELSE LET normalizedPrefill == NormalizeWhitespace(prefillContent)
                normalizedResponse == NormalizeWhitespace(response)
                prefillWords == Len(SplitWhitespace(prefillContent))
                responseWords == SplitWhitespace(response)
            IN IF StartsWith(normalizedResponse, normalizedPrefill)
                  /\ Len(responseWords) > prefillWords
               THEN TrimStart(JoinSpace(Slice(responseWords, prefillWords)))
               ELSE response

\* ------------------------------------------------------------ variables
VARIABLES
  response, prefillContent, stripResult, stripPc,  \* one call of strip
  fs,              \* path -> [status, content]: the files of the workspaces
  console,         \* number of lines written by console.warn
  lastCall, calls, \* the last call of the reader and the number of calls
  sessionPrefillContent,  \* activeSession._prefillContent
  messages,               \* activeSession.messages
  pc, turn,               \* position in the turn, number of turns begun
  injected,        \* what the injection point of this turn injected
  rawResponse,     \* what the model returned in this turn
  consulted,       \* what the stripping point of this turn read
  messagesBefore   \* activeSession.messages when the stripping point began

stripVars == <<response, prefillContent, stripResult, stripPc>>
readVars == <<lastCall, calls>>
turnVars == <<sessionPrefillContent, messages, pc, turn, injected,
              rawResponse, consulted, messagesBefore>>

vars == <<response, prefillContent, stripResult, stripPc, fs, console,
          lastCall, calls, sessionPrefillContent, messages, pc, turn,
          injected, rawResponse, consulted, messagesBefore>>

\* ----------------------------------------------------------- filesystem
Workspaces == {"/ws"}
effectiveWorkspace == "/ws"

\* path.join(workspacePath, "PREFILL.md")
PrefillPath(workspacePath) == <<workspacePath, "PREFILL.md">>

Paths == {PrefillPath(w) : w \in Workspaces}

\* "ok": a readable file; "ENOENT": no such file; "EACCES": the read fails
\* for another reason.
NoFile == [status |-> "ENOENT", content |-> <<>>]
Unreadable == [status |-> "EACCES", content |-> <<>>]
File(content) == [status |-> "ok", content |-> content]

\* await fs.readFile(path, "utf-8"): the content, or a thrown error with a code
ReadFile(path) ==
  IF fs[path].status = "ok"
  THEN [threw |-> FALSE, code |-> "", content |-> fs[path].content]
  ELSE [threw |-> TRUE, code |-> fs[path].status, content |-> <<>>]

\* ------------------------------------------------- readPrefillContent
\* Each reader returns [returned, warnings, threw]: the value returned (if
\* any), the console.warn calls made, and whether it threw to its caller.

\* defect: the trimmed text is returned even when it is empty
ReadPrefillContentKeepsEmpty(workspacePath) ==
  LET read == ReadFile(PrefillPath(workspacePath))
  IN IF ~read.threw
     THEN [returned |-> Trim(read.content), warnings |-> 0, threw |-> FALSE]
     ELSE IF read.code = "ENOENT"
          THEN [returned |-> Undefined, warnings |-> 0, threw |-> FALSE]
          ELSE [returned |-> Undefined, warnings |-> 1, threw |-> FALSE]

\* defect: every failed read is logged, the missing file included
ReadPrefillContentWarnsAlways(workspacePath) ==
  LET read == ReadFile(PrefillPath(workspacePath))
  IN IF ~read.threw
     THEN LET trimmed == Trim(read.content)
          IN [returned |-> IF trimmed = <<>> THEN Undefined ELSE trimmed,
              warnings |-> 0, threw |-> FALSE]
     ELSE [returned |-> Undefined, warnings |-> 1, threw |-> FALSE]

ReadPrefillContent(workspacePath) ==
  LET read == ReadFile(PrefillPath(workspacePath))
  IN IF ~read.threw
     THEN LET trimmed == Trim(read.content)
          IN [returned |-> IF trimmed = <<>> THEN Undefined ELSE trimmed,
              warnings |-> 0, threw |-> FALSE]
     ELSE IF read.code = "ENOENT"
          THEN [returned |-> Undefined, warnings |-> 0, threw |-> FALSE]
          ELSE [returned |-> Undefined, warnings |-> 1, threw |-> FALSE]

HasPrefillEnabled(workspacePath) ==
  LET content == ReadPrefillContent(workspacePath)
  IN [returned |-> content.returned # Undefined,
      warnings |-> content.warnings, threw |-> content.threw]

\* ================================================================ strip
\* One call of stripPrefillFromResponse on arbitrary arguments.
IdleStrip ==
  /\ response = <<>>
  /\ prefillContent = Undefined
  /\ stripResult = Undefined
  /\ stripPc = "off"

IdleRead ==
  /\ lastCall = [op |-> "none", workspace |-> effectiveWorkspace,
                 seen |-> NoFile, returned |-> Undefined, warnings |-> 0,
                 threw |-> FALSE]
  /\ calls = 0

IdleTurn ==
  /\ sessionPrefillContent = Undefined
  /\ messages = <<>>
  /\ pc = "off"
  /\ turn = 0
  /\ injected = Undefined
  /\ rawResponse = Undefined
  /\ consulted = Undefined
  /\ messagesBefore = <<>>

EmptyFs ==
  /\ fs = [p \in Paths |-> NoFile]
  /\ console = 0

StripInit ==
  /\ response \in Texts(MaxResponseLen)
  /\ prefillContent \in Texts(MaxPrefillLen) \cup {Undefined}
  /\ stripResult = Undefined
  /\ stripPc = "call"
  /\ EmptyFs /\ IdleRead /\ IdleTurn

StripCall ==
  /\ stripPc = "call"
  /\ stripResult' = StripPrefillFromResponse(response, prefillContent)
  /\ stripPc' = "done"
  /\ UNCHANGED <<response, prefillContent, fs, console, readVars, turnVars>>

StripNext == StripCall

SpecStrip == StripInit /\ [][StripNext]_vars

\* ================================================================= read
\* Calls of the reader on a workspace whose PREFILL.md comes and goes.
WriteFile(w, maxLen) ==
  \E c \in Texts(maxLen) :
    /\ fs[PrefillPath(w)] # File(c)
    /\ fs' = [fs EXCEPT ![PrefillPath(w)] = File(c)]

DeleteFile(w) ==
  /\ fs[PrefillPath(w)] # NoFile
  /\ fs' = [fs EXCEPT ![PrefillPath(w)] = NoFile]

\* the file stays but can no longer be read (permissions, I/O fault)
BreakFile(w) ==
  /\ fs[PrefillPath(w)] # Unreadable
  /\ fs' = [fs EXCEPT ![PrefillPath(w)] = Unreadable]

ReadInit == EmptyFs /\ IdleStrip /\ IdleTurn /\ IdleRead

ReadWrite ==
  /\ \E w \in Workspaces : WriteFile(w, MaxFileLen)
  /\ UNCHANGED <<console, readVars, stripVars, turnVars>>

ReadDelete ==
  /\ \E w \in Workspaces : DeleteFile(w)
  /\ UNCHANGED <<console, readVars, stripVars, turnVars>>

ReadBreak ==
  /\ \E w \in Workspaces : BreakFile(w)
  /\ UNCHANGED <<console, readVars, stripVars, turnVars>>

CallReadPrefillContent ==
  /\ calls < MaxCalls
  /\ \E w \in Workspaces :
       LET r == ReadPrefillContent(w)
       IN /\ lastCall' = [op |-> "readPrefillContent", workspace |-> w,
                          seen |-> fs[PrefillPath(w)], returned |-> r.returned,
                          warnings |-> r.warnings, threw |-> r.threw]
          /\ console' = console + r.warnings
  /\ calls' = calls + 1
  /\ UNCHANGED <<fs, stripVars, turnVars>>

CallHasPrefillEnabled ==
  /\ calls < MaxCalls
  /\ \E w \in Workspaces :
       LET r == HasPrefillEnabled(w)
       IN /\ lastCall' = [op |-> "hasPrefillEnabled", workspace |-> w,
                          seen |-> fs[PrefillPath(w)], returned |-> r.returned,
                          warnings |-> r.warnings, threw |-> r.threw]
          /\ console' = console + r.warnings
  /\ calls' = calls + 1
  /\ UNCHANGED <<fs, stripVars, turnVars>>

ReadNext ==
  \/ ReadWrite
  \/ ReadDelete
  \/ ReadBreak
  \/ CallReadPrefillContent
  \/ CallHasPrefillEnabled

SpecRead == ReadInit /\ [][ReadNext]_vars

\* ================================================================= turn
\* Turns of one session of the embedded runner: the injection point, the
\* model call, the stripping point.
UserPrompt == <<"a">>

\* content of a message that is not a string (an array of content blocks)
Blocks == <<"blocks">>
TypeofString(content) == content # Blocks

UserMessage(content) == [role |-> "user", content |-> content]
AssistantMessage(content) == [role |-> "assistant", content |-> content]

TurnInit ==
  /\ EmptyFs /\ IdleStrip /\ IdleRead
  /\ sessionPrefillContent = Undefined
  /\ messages = <<>>
  /\ pc = "idle"
  /\ turn = 0
  /\ injected = Undefined
  /\ rawResponse = Undefined
  /\ consulted = Undefined
  /\ messagesBefore = <<>>

BetweenTurns == pc \in {"idle", "stripped"}

TurnWrite ==
  /\ BetweenTurns
  /\ WriteFile(effectiveWorkspace, MaxTurnFileLen)
  /\ UNCHANGED <<console, readVars, stripVars, turnVars>>

TurnDelete ==
  /\ BetweenTurns
  /\ DeleteFile(effectiveWorkspace)
  /\ UNCHANGED <<console, readVars, stripVars, turnVars>>

TurnBreak ==
  /\ BetweenTurns
  /\ BreakFile(effectiveWorkspace)
  /\ UNCHANGED <<console, readVars, stripVars, turnVars>>

\* The turn begins with the history and the user's prompt in the session;
\* then PREFILL.md is read and, if it has content, stored on the session and
\* appended as an assistant message.
InjectionPoint ==
  /\ BetweenTurns
  /\ turn < MaxTurns
  /\ LET limited == Append(messages, UserMessage(UserPrompt))
         read == ReadPrefillContent(effectiveWorkspace)
         content == read.returned
     IN /\ console' = console + read.warnings
        /\ IF ~Falsy(content)
           THEN /\ sessionPrefillContent' = content
                /\ messages' = Append(limited, AssistantMessage(content))
                /\ injected' = content
           ELSE /\ UNCHANGED sessionPrefillContent
                /\ messages' = limited
                /\ injected' = Undefined
  /\ pc' = "injected"
  /\ turn' = turn + 1
  /\ rawResponse' = Undefined
  /\ consulted' = Undefined
  /\ messagesBefore' = <<>>
  /\ UNCHANGED <<fs, readVars, stripVars>>

\* The model answers: its response becomes the last message of the session.
ModelCall ==
  /\ pc = "injected"
  /\ \E raw \in Texts(MaxRawLen) \cup {Blocks} :
       /\ rawResponse' = raw
       /\ messages' = Append(messages, AssistantMessage(raw))
  /\ pc' = "responded"
  /\ UNCHANGED <<fs, console, readVars, stripVars, sessionPrefillContent,
                 turn, injected, consulted, messagesBefore>>

\* The finally block of the attempt: strip the stored prefill from the last
\* assistant message.
StrippingPoint ==
  /\ pc = "responded"
  /\ LET content == sessionPrefillContent
         currentMessages == messages
         lastMsg == currentMessages[Len(currentMessages)]
     IN /\ consulted' = content
        /\ messagesBefore' = currentMessages
        /\ IF /\ ~Falsy(content)
              /\ Len(currentMessages) > 0
              /\ lastMsg.role = "assistant"
              /\ TypeofString(lastMsg.content)
              /\ StartsWith(lastMsg.content, content)
           THEN LET stripped == TrimStart(Slice(lastMsg.content, Len(content)))
                IN messages' = [currentMessages EXCEPT
                                  ![Len(currentMessages)].content = stripped]
           ELSE UNCHANGED messages
  /\ pc' = "stripped"
  /\ UNCHANGED <<fs, console, readVars, stripVars, sessionPrefillContent,
                 turn, injected, rawResponse>>

TurnNext ==
  \/ TurnWrite
  \/ TurnDelete
  \/ TurnBreak
  \/ InjectionPoint
  \/ ModelCall
  \/ StrippingPoint

SpecTurn == TurnInit /\ [][TurnNext]_vars

\* =========================================================== properties
\* Descriptions of the results, stated without the operators of the code.
AllWhitespace(s) == \A i \in 1..Len(s) : s[i] \in WhiteSpace

\* t is s without its leading whitespace
IsTrimStartOf(t, s) ==
  \E k \in 0..Len(s) :
    /\ \A i \in 1..k : s[i] \in WhiteSpace
    /\ t = SubSeq(s, k + 1, Len(s))
    /\ t # <<>> => t[1] \notin WhiteSpace

\* t is s without its leading and trailing whitespace
IsTrimOf(t, s) ==
  \E k \in 0..Len(s) : \E m \in k..Len(s) :
    /\ \A i \in 1..k : s[i] \in WhiteSpace
    /\ \A i \in (m + 1)..Len(s) : s[i] \in WhiteSpace
    /\ t = SubSeq(s, k + 1, m)
    /\ t # <<>> => (t[1] \notin WhiteSpace /\ t[Len(t)] \notin WhiteSpace)

IsText(x) == x # Undefined

\* a value readPrefillContent can return: trimmed and not empty
AsRead(p) ==
  /\ IsText(p) /\ p # <<>>
  /\ p[1] \notin WhiteSpace /\ p[Len(p)] \notin WhiteSpace

StripDone == stripPc = "done"

ExactTier == IsText(prefillContent) /\ StartsWith(response, prefillContent)

NormalizedMatch ==
  /\ IsText(prefillContent)
  /\ StartsWith(NormalizeWhitespace(response),
                NormalizeWhitespace(prefillContent))

\* C1 (as claimed): for all texts p and s, strip(p + s, p) = trimStart(s):
\* whenever the response is the prefill followed by s, the result is s
\* without its leading whitespace.
C1_AnyPrefill ==
  (StripDone /\ ExactTier)
    => IsTrimStartOf(stripResult, Slice(response, Len(prefillContent)))

\* C1 (amended): for all texts p and s with p not empty,
\* strip(p + s, p) = trimStart(s).
C1_NonEmptyPrefill ==
  (StripDone /\ ExactTier /\ prefillContent # <<>>)
    => IsTrimStartOf(stripResult, Slice(response, Len(prefillContent)))

\* a call strip(p + s, p) where s begins with whitespace and goes on
C1_Witness ==
  /\ StripDone /\ ExactTier /\ prefillContent # <<>>
  /\ Len(response) > Len(prefillContent)
  /\ response[Len(prefillContent) + 1] \in WhiteSpace
  /\ stripResult # <<>>
  /\ Len(stripResult) < Len(response) - Len(prefillContent)

\* C6: strip(r, undefined) = r for every r, and strip("", p) = "" for every
\* p, undefined included.
C6_Identity ==
  (StripDone /\ (prefillContent = Undefined \/ response = <<>>))
    => stripResult = response

\* strip(r, undefined) for an r that begins with whitespace
C6_Witness ==
  /\ StripDone /\ prefillContent = Undefined
  /\ Len(response) > 1 /\ response[1] \in WhiteSpace
  /\ stripResult = response

\* C7: if the response starts with the prefill neither literally nor after
\* whitespace normalization of both, strip returns the response unchanged.
C7_NoMatchUnchanged ==
  (StripDone /\ IsText(prefillContent) /\ ~ExactTier /\ ~NormalizedMatch)
    => stripResult = response

\* a no-match call on a response that normalization would change
C7_Witness ==
  /\ StripDone /\ IsText(prefillContent) /\ prefillContent # <<>>
  /\ ~ExactTier /\ ~NormalizedMatch
  /\ NormalizeWhitespace(response) # response
  /\ stripResult = response

\* C8: when the prefill is the entire response, character for character or
\* after whitespace normalization of both, strip returns the empty string.
C8_WholeResponse ==
  (/\ StripDone /\ AsRead(prefillContent)
   /\ \/ response = prefillContent
      \/ NormalizeWhitespace(response) = NormalizeWhitespace(prefillContent))
    => stripResult = <<>>

\* C9 (as claimed): a prefill longer, in characters, than the response is
\* matched by neither tier: the response is returned unchanged.
C9_LongerPrefill ==
  (StripDone /\ IsText(prefillContent) /\ Len(prefillContent) > Len(response))
    => stripResult = response

\* C9 (amended): a prefill that is longer than the response after whitespace
\* normalization of both is matched by neither tier: the response is
\* returned unchanged.
C9_LongerNormalizedPrefill ==
  (/\ StripDone /\ IsText(prefillContent)
   /\ Len(NormalizeWhitespace(prefillContent))
        > Len(NormalizeWhitespace(response)))
    => (~ExactTier /\ ~NormalizedMatch /\ stripResult = response)

\* a prefill of which the response is a proper beginning, after normalization
C9_Witness ==
  /\ StripDone /\ IsText(prefillContent)
  /\ Len(NormalizeWhitespace(prefillContent))
       > Len(NormalizeWhitespace(response))
  /\ NormalizeWhitespace(response) # <<>>
  /\ NormalizeWhitespace(response) # response
  /\ StartsWith(NormalizeWhitespace(prefillContent),
                NormalizeWhitespace(response))
  /\ stripResult = response

\* C10: when the whitespace-normalized tier shortens the response, what it
\* removed is exactly the prefill: the normalized prefill followed by the
\* normalized result (after one space, when the result is not empty) is the
\* normalized response.
C10_RemovesExactlyPrefill ==
  (/\ StripDone /\ AsRead(prefillContent) /\ response # <<>>
   /\ ~ExactTier /\ NormalizedMatch
   /\ stripResult # response)
    => LET rest == NormalizeWhitespace(stripResult)
       IN NormalizeWhitespace(response) =
            NormalizeWhitespace(prefillContent)
              \o (IF rest = <<>> THEN <<>> ELSE <<" ">> \o rest)

ReadReturned == lastCall.op = "readPrefillContent"
EnabledReturned == lastCall.op = "hasPrefillEnabled"

HasContent(file) == file.status = "ok" /\ ~AllWhitespace(file.content)

\* C4: on a file that is missing or readable, readPrefillContent returns
\* undefined when the file is missing or holds only whitespace, and
\* otherwise the content without its leading and trailing whitespace, never
\* the empty string; hasPrefillEnabled returns true exactly in the second
\* case. The result is that of the file as it is at the call.
C4_ReadIsTrimmedContent ==
  /\ (ReadReturned /\ lastCall.seen.status \in {"ok", "ENOENT"})
       => IF HasContent(lastCall.seen)
          THEN /\ IsText(lastCall.returned) /\ lastCall.returned # <<>>
               /\ IsTrimOf(lastCall.returned, lastCall.seen.content)
          ELSE lastCall.returned = Undefined
  /\ (EnabledReturned /\ lastCall.seen.status \in {"ok", "ENOENT"})
       => (lastCall.returned <=> HasContent(lastCall.seen))

\* a second or later read, of a file with whitespace around its content,
\* made after the file was changed once more
C4_Witness ==
  /\ ReadReturned /\ calls > 1
  /\ HasContent(lastCall.seen)
  /\ lastCall.seen.content[1] \in WhiteSpace
  /\ Len(lastCall.returned) < Len(lastCall.seen.content)
  /\ fs[PrefillPath(lastCall.workspace)] # lastCall.seen

\* C5: readPrefillContent never throws to its caller; a missing file gives
\* undefined and no warning; any other failed read gives one warning and
\* undefined.
C5_NeverThrows ==
  ReadReturned =>
    /\ ~lastCall.threw
    /\ lastCall.seen.status = "ENOENT"
         => (lastCall.returned = Undefined /\ lastCall.warnings = 0)
    /\ lastCall.seen.status \notin {"ok", "ENOENT"}
         => (lastCall.returned = Undefined /\ lastCall.warnings = 1)

\* a read of a missing file after a read of an unreadable one
C5_Witness ==
  /\ ReadReturned /\ lastCall.seen.status = "ENOENT"
  /\ console = 1 /\ calls > 1

TurnStripped == pc = "stripped"

\* C2: in a turn in which a prefill was injected, the content stored for the
\* model's response after the stripping point is
\* stripPrefillFromResponse(raw response, injected prefill), and the other
\* messages are as they were.
C2_StoredIsStripped ==
  (TurnStripped /\ injected # Undefined /\ TypeofString(rawResponse))
    => /\ Len(messages) = Len(messagesBefore)
       /\ messages[Len(messages)].content
            = StripPrefillFromResponse(rawResponse, injected)
       /\ \A i \in 1..(Len(messages) - 1) : messages[i] = messagesBefore[i]

\* C3: the prefill consulted at the stripping point of a turn is the value
\* injected at the injection point of that turn, and undefined when nothing
\* was injected in that turn.
C3_SameTurnPrefill == TurnStripped => consulted = injected

====
